---- MODULE Spec2Model ----
(***************************************************************************)
(* Model of the plyoreacto event engine (src/event_engine.rs): the broker  *)
(* endpoints, the plugin launcher, the REQ/REP synchronization barrier     *)
(* (sync_plugins) and the ingress -> egress proxy.                         *)
(*                                                                         *)
(* Threads: the main thread (event_engine -> start_plugins -> sync_plugins *)
(* -> zmq::proxy), one thread per in-process plugin (the closure spawned   *)
(* by start_plugin) and, as environment, the external participants.        *)
(***************************************************************************)
EXTENDS Integers, Sequences, FiniteSets, TLC

(***************************************************************************)
(* Bounds of the model.                                                    *)
(***************************************************************************)
\* Messages the plugins' entry points publish in one run, all plugins together.
MaxMsgs == 2
\* Largest participant id the id assignments of InitIds draw from.
MaxId == 4

(***************************************************************************)
(* Configuration: PLUGINS and EXTERNAL_PLUGINS.                            *)
(***************************************************************************)
\* The port every rendezvous address is an offset of (5000 + plugin_id).
BasePort == 5000

PLUGINS ==
    << [plugin_id |-> 0, subscriptions |-> <<>>],
       [plugin_id |-> 1, subscriptions |-> <<"NewImageEvent">>],
       [plugin_id |-> 2, subscriptions |-> <<"ImageScoredEvent">>] >>

EXTERNAL_PLUGINS == << [plugin_id |-> 3] >>

\* In-process plugins are participants 1..NumPlugins (their place in PLUGINS),
\* external ones follow (their place in EXTERNAL_PLUGINS).
NumPlugins == Len(PLUGINS)
NumExternal == Len(EXTERNAL_PLUGINS)
Plugins == 1..NumPlugins
Externals == (NumPlugins + 1)..(NumPlugins + NumExternal)
Participants == Plugins \cup Externals

\* total_subscribers of sync_plugins.
total_subscribers == Len(PLUGINS) + Len(EXTERNAL_PLUGINS)

\* The ids as shipped, by participant.
ShippedIds ==
    [i \in Participants |->
        IF i \in Plugins THEN PLUGINS[i].plugin_id
        ELSE EXTERNAL_PLUGINS[i - NumPlugins].plugin_id]

\* Every assignment of pairwise-distinct ids (up to MaxId) to the participants.
IdAssignments ==
    {a \in [Participants -> 0..MaxId] :
        \A i, j \in Participants : i # j => a[i] # a[j]}

\* Every rendezvous port a participant or the barrier can name.
Ports == {BasePort + k : k \in 0..MaxId} \cup {BasePort + k : k \in 0..(total_subscribers - 1)}

Topics == {"NewImageEvent", "ImageScoredEvent"}

(***************************************************************************)
(* Topic filters and zmq's prefix matching.                                *)
(***************************************************************************)
\* The filter prefix of an event type (crate::events, not part of src/).
get_event_type_bytes_filter(name) ==
    CASE name = "NewImageEvent" -> <<1>>
      [] name = "ImageScoredEvent" -> <<2>>

\* The bytes of an event of type `name`: its type prefix, then a body that
\* tells the publisher and the publisher's sequence number.
EventBytes(name, src, seq) == get_event_type_bytes_filter(name) \o <<src, seq>>

\* Least and greatest element of a non-empty set of numbers.
Min(S) == CHOOSE x \in S : \A y \in S : x <= y
Max(S) == CHOOSE x \in S : \A y \in S : x >= y

\* zmq's subscription matching: the filter is a prefix of the message.
IsPrefix(f, m) == Len(f) <= Len(m) /\ SubSeq(m, 1, Len(f)) = f

\* A SUB socket passes a message when one of its filters matches it.
Accepts(filters, m) == \E f \in filters : IsPrefix(f, m)

\* Mutant: no filter is installed.
SubscriptionFilters_None(subscriptions) == {}

\* Mutant: every plugin subscribes to the empty prefix as well.
SubscriptionFilters_All(subscriptions) ==
    {<<>>} \cup {get_event_type_bytes_filter(subscriptions[k]) : k \in 1..Len(subscriptions)}

\* Mutant: a plugin with no subscription subscribes to everything.
SubscriptionFilters_EmptyIsAll(subscriptions) ==
    IF subscriptions = <<>> THEN {<<>>}
    ELSE {get_event_type_bytes_filter(subscriptions[k]) : k \in 1..Len(subscriptions)}

\* The filters start_plugin installs for a subscription list.
SubscriptionFilters(subscriptions) ==
    {get_event_type_bytes_filter(subscriptions[k]) : k \in 1..Len(subscriptions)}

VARIABLES
    plugin_id,          \* participant -> its configured id
    mainPc,             \* where the main thread is
    incoming_filters,   \* filters of the engine's SUB socket ("incoming")
    launched,           \* plugins start_plugins has started so far
    sub_filters,        \* plugin -> filters installed on its sub_socket
    connected,          \* plugins whose pub, sub and sync sockets are connected
    pc,                 \* plugin -> where its thread is
    ext,                \* external participant -> where it is
    bound,              \* rendezvous ports the barrier has bound
    req,                \* port -> ready requests queued at that address
    rep,                \* port -> replies in flight to that address's requester
    sync_sockets,       \* the Vec of retained REP sockets (by port)
    ready_subscribers,  \* counter of sync_plugins' receive loop
    msg_sent,           \* counter of sync_plugins' reply loop
    ready_recv,         \* port -> requests the barrier has received there
    ack_sent,           \* port -> replies the barrier has sent there
    early,              \* ports whose request was sent before the bind
    next_seq,           \* plugin -> sequence number of its next message
    published,          \* messages handed to pub sockets so far
    ingress,            \* plugin -> pipe from its pub_socket to "incoming"
    egress,             \* messages the proxy has sent on "outgoing"
    received,           \* plugin -> messages delivered to its sub_socket
    ingress_log,        \* messages the proxy has taken from "incoming"
    start_calls,        \* plugin -> times its start function has been called
    req_log,            \* participant -> operations on its REQ socket so far
    rep_log,            \* port -> operations on the barrier's REP socket there
    panics              \* thread -> the message of the expect it panicked on

vars ==
    << plugin_id, mainPc, incoming_filters, launched, sub_filters, connected,
       pc, ext, bound, req, rep, sync_sockets, ready_subscribers, msg_sent,
       ready_recv, ack_sent, early, next_seq, published, ingress, egress,
       received, ingress_log, start_calls, req_log, rep_log, panics >>

configVars == << plugin_id >>
launchVars == << launched, sub_filters, connected >>
barrierVars == << bound, sync_sockets, ready_subscribers, msg_sent, ready_recv, ack_sent >>
trafficVars == << next_seq, published, ingress, egress, received >>
historyVars == << ingress_log, start_calls, req_log, rep_log >>
faultVars == << panics >>

\* The threads of the process: the main thread and one per plugin.
MainThread == 0
Threads == {MainThread} \cup Plugins

\* No expect has failed on a thread.
NoPanic == ""

\* Mutant: the plugin's port is off by one.
sync_endpoint_port_OffByOne(i) == BasePort + plugin_id[i] + 1

\* The rendezvous port of a participant: 5000 + plugin_id.
sync_endpoint_port(i) == BasePort + plugin_id[i]

InitCommon ==
    /\ mainPc = "get_outgoing_socket"
    /\ incoming_filters = {}
    /\ launched = 0
    /\ sub_filters = [i \in Plugins |-> {}]
    /\ connected = {}
    /\ pc = [i \in Plugins |-> "not_spawned"]
    /\ ext = [i \in Externals |-> "idle"]
    /\ bound = {}
    /\ req = [p \in Ports |-> 0]
    /\ rep = [p \in Ports |-> 0]
    /\ sync_sockets = <<>>
    /\ ready_subscribers = 0
    /\ msg_sent = 0
    /\ ready_recv = [p \in Ports |-> 0]
    /\ ack_sent = [p \in Ports |-> 0]
    /\ early = {}
    /\ next_seq = [i \in Plugins |-> 1]
    /\ published = 0
    /\ ingress = [i \in Plugins |-> <<>>]
    /\ egress = <<>>
    /\ received = [i \in Plugins |-> <<>>]
    /\ ingress_log = <<>>
    /\ start_calls = [i \in Plugins |-> 0]
    /\ req_log = [i \in Participants |-> <<>>]
    /\ rep_log = [p \in Ports |-> <<>>]
    /\ panics = [t \in Threads |-> NoPanic]

\* The engine as shipped.
Init == plugin_id = ShippedIds /\ InitCommon

\* The engine with PLUGINS / EXTERNAL_PLUGINS edited to other distinct ids.
InitIds == plugin_id \in IdAssignments /\ InitCommon

(***************************************************************************)
(* Main thread: event_engine.                                              *)
(***************************************************************************)
\* get_outgoing_socket: bind the PUB socket.
GetOutgoingSocket ==
    /\ mainPc = "get_outgoing_socket"
    /\ mainPc' = "get_incoming_socket"
    /\ UNCHANGED << configVars, historyVars, faultVars, incoming_filters, launchVars,
                    pc, ext, barrierVars,
                    req, rep, early, trafficVars >>

\* Mutant: the engine subscribes to one event type only.
IncomingFilter_OneType == <<1>>

\* The filter get_incoming_socket subscribes to: String::new(), the empty prefix.
IncomingFilter == <<>>

\* get_incoming_socket: bind the SUB socket and subscribe to the empty prefix.
GetIncomingSocket ==
    /\ mainPc = "get_incoming_socket"
    /\ incoming_filters' = {IncomingFilter}
    /\ mainPc' = "start_plugins"
    /\ UNCHANGED << configVars, historyVars, faultVars, launchVars, pc, ext,
                    barrierVars, req, rep, early,
                    trafficVars >>

\* One turn of start_plugins' loop: start_plugin for the next entry of PLUGINS.
\* Connects the pub socket, connects the sub socket and installs one filter per
\* subscription, connects the sync socket, then spawns the thread.
StartPlugin ==
    /\ mainPc = "start_plugins"
    /\ launched < NumPlugins
    /\ LET i == launched + 1 IN
        /\ sub_filters' = [sub_filters EXCEPT ![i] = SubscriptionFilters(PLUGINS[i].subscriptions)]
        /\ connected' = connected \cup {i}
        /\ pc' = [pc EXCEPT ![i] = "send"]
        /\ launched' = i
    /\ UNCHANGED << configVars, historyVars, faultVars, mainPc, incoming_filters,
                    ext, barrierVars, req, rep,
                    early, trafficVars >>

\* start_plugins' loop is over: call sync_plugins.
StartPluginsDone ==
    /\ mainPc = "start_plugins"
    /\ launched = NumPlugins
    /\ mainPc' = "sync_loop"
    /\ UNCHANGED << configVars, historyVars, faultVars, incoming_filters, launchVars,
                    pc, ext, barrierVars,
                    req, rep, early, trafficVars >>

(***************************************************************************)
(* Main thread: sync_plugins.                                              *)
(***************************************************************************)
\* Mutant: the barrier waits only for the in-process plugins.
AwaitingMore_PluginsOnly(k) == k < NumPlugins

\* Mutant: the reply loop stops one short.
RepliesLeft_OneShort(k) == k < total_subscribers - 1

\* Mutant: a non-blocking receive.
RequestArrived_NoWait(port) == TRUE

\* Mutant: the reply loop reads the last socket and leaves it in the Vec.
Pop_Peek(s) == [sock |-> s[Len(s)], rest |-> s]

\* Mutant: the barrier goes through the addresses from the highest down.
BarrierPort_Descending(k) == BasePort + (total_subscribers - 1 - k)

\* Mutant: the replies go out oldest socket first.
Pop_Front(s) == [sock |-> s[1], rest |-> SubSeq(s, 2, Len(s))]

\* Mutant: the barrier awaits the address of the k-th configured participant.
BarrierPort_ById(k) == BasePort + plugin_id[k + 1]

\* The address of the receive loop's k-th turn: port = 5000 + ready_subscribers.
BarrierPort(k) == BasePort + k

\* The receive loop's condition.
AwaitingMore(k) == k < total_subscribers

\* The reply loop's condition.
RepliesLeft(k) == k < total_subscribers

\* Whether recv_msg on the REP socket bound to `port` can return: it blocks
\* until a request has arrived there.
RequestArrived(port) == req[port] > 0

\* Vec::pop: the last element and the rest.
Pop(s) == [sock |-> s[Len(s)], rest |-> SubSeq(s, 1, Len(s) - 1)]

\* A turn of the receive loop, up to recv_msg: create the REP socket and bind
\* it to the tcp and inproc addresses of port 5000 + ready_subscribers.
SyncBind ==
    /\ mainPc = "sync_loop"
    /\ AwaitingMore(ready_subscribers)
    /\ bound' = bound \cup {BarrierPort(ready_subscribers)}
    /\ mainPc' = "sync_recv"
    /\ UNCHANGED << configVars, historyVars, faultVars, incoming_filters, launchVars,
                    pc, ext, req, rep,
                    sync_sockets, ready_subscribers, msg_sent, ready_recv, ack_sent,
                    early, trafficVars >>

\* Mutant: the barrier replies as soon as it has the request and keeps no socket.
SyncRecv_ReplyAtOnce ==
    /\ mainPc = "sync_recv"
    /\ LET port == BasePort + ready_subscribers IN
        /\ req[port] > 0
        /\ req' = [req EXCEPT ![port] = @ - 1]
        /\ ready_recv' = [ready_recv EXCEPT ![port] = @ + 1]
        /\ rep' = [rep EXCEPT ![port] = @ + 1]
        /\ ack_sent' = [ack_sent EXCEPT ![port] = @ + 1]
        /\ rep_log' = [rep_log EXCEPT ![port] = @ \o <<"recv", "send">>]
    /\ ready_subscribers' = ready_subscribers + 1
    /\ mainPc' = "sync_loop"
    /\ UNCHANGED << configVars, ingress_log, start_calls, req_log, faultVars,
                    incoming_filters, launchVars, pc, ext, bound, sync_sockets,
                    msg_sent, early, trafficVars >>

\* The rest of the turn: recv_msg returns the request, the socket is pushed
\* and ready_subscribers incremented.
SyncRecv ==
    /\ mainPc = "sync_recv"
    /\ LET port == BarrierPort(ready_subscribers) IN
        /\ RequestArrived(port)
        /\ req' = [req EXCEPT ![port] = @ - 1]
        /\ ready_recv' = [ready_recv EXCEPT ![port] = @ + 1]
        /\ sync_sockets' = Append(sync_sockets, port)
    /\ ready_subscribers' = ready_subscribers + 1
    /\ mainPc' = "sync_loop"
    /\ rep_log' = [rep_log EXCEPT ![BarrierPort(ready_subscribers)] = Append(@, "recv")]
    /\ UNCHANGED << configVars, ingress_log, start_calls, req_log, faultVars,
                    incoming_filters, launchVars, pc, ext, bound, rep,
                    msg_sent, ack_sent, early, trafficVars >>

\* The receive loop ends.
SyncRecvDone ==
    /\ mainPc = "sync_loop"
    /\ ~AwaitingMore(ready_subscribers)
    /\ mainPc' = "reply_loop"
    /\ UNCHANGED << configVars, historyVars, faultVars, incoming_filters, launchVars,
                    pc, ext, barrierVars,
                    req, rep, early, trafficVars >>

\* A turn of the reply loop: pop a socket and send "ok" on it. The pop's
\* expect needs a socket to be there.
SyncReply ==
    /\ mainPc = "reply_loop"
    /\ RepliesLeft(msg_sent)
    /\ Len(sync_sockets) > 0
    /\ LET popped == Pop(sync_sockets) IN
        /\ sync_sockets' = popped.rest
        /\ rep' = [rep EXCEPT ![popped.sock] = @ + 1]
        /\ ack_sent' = [ack_sent EXCEPT ![popped.sock] = @ + 1]
        /\ rep_log' = [rep_log EXCEPT ![popped.sock] = Append(@, "send")]
    /\ msg_sent' = msg_sent + 1
    /\ UNCHANGED << configVars, ingress_log, start_calls, req_log, faultVars, mainPc,
                    incoming_filters, launchVars, pc, ext, bound,
                    req, ready_subscribers, ready_recv, early, trafficVars >>

\* The reply loop ends: sync_plugins and start_plugins return and event_engine
\* enters zmq::proxy.
SyncReplyDone ==
    /\ mainPc = "reply_loop"
    /\ ~RepliesLeft(msg_sent)
    /\ mainPc' = "proxy"
    /\ UNCHANGED << configVars, historyVars, faultVars, incoming_filters, launchVars,
                    pc, ext, barrierVars,
                    req, rep, early, trafficVars >>

(***************************************************************************)
(* Plugin threads: the closure start_plugin spawns.                        *)
(***************************************************************************)
\* Mutant: the thread does not wait for the reply.
ReplyArrived_NoWait(port) == TRUE

\* Whether recv_msg on the REQ socket connected to `port` can return: it
\* blocks until the barrier's reply has arrived.
ReplyArrived(port) == rep[port] > 0

\* sync.send("ready"): the request queues at the plugin's rendezvous address,
\* bound or not.
PluginSendReady(i) ==
    /\ pc[i] = "send"
    /\ LET port == sync_endpoint_port(i) IN
        /\ req' = [req EXCEPT ![port] = @ + 1]
        /\ early' = IF port \in bound THEN early ELSE early \cup {port}
    /\ pc' = [pc EXCEPT ![i] = "recv"]
    /\ req_log' = [req_log EXCEPT ![i] = Append(@, "send")]
    /\ UNCHANGED << configVars, ingress_log, start_calls, rep_log, faultVars, mainPc,
                    incoming_filters, launchVars, ext, barrierVars,
                    rep, trafficVars >>

\* sync.recv_msg returns the reply; the thread calls the plugin's start function.
PluginRecvReply(i) ==
    /\ pc[i] = "recv"
    /\ LET port == sync_endpoint_port(i) IN
        /\ ReplyArrived(port)
        /\ rep' = [rep EXCEPT ![port] = @ - 1]
    /\ pc' = [pc EXCEPT ![i] = "running"]
    /\ req_log' = [req_log EXCEPT ![i] = Append(@, "recv")]
    /\ start_calls' = [start_calls EXCEPT ![i] = @ + 1]
    /\ UNCHANGED << configVars, ingress_log, rep_log, faultVars, mainPc,
                    incoming_filters, launchVars, ext, barrierVars,
                    req, early, trafficVars >>

(***************************************************************************)
(* External participants (the environment).                                *)
(***************************************************************************)
\* The participant connects to its rendezvous address and sends its request.
ExternalSendReady(i) ==
    /\ ext[i] = "idle"
    /\ LET port == sync_endpoint_port(i) IN
        /\ req' = [req EXCEPT ![port] = @ + 1]
        /\ early' = IF port \in bound THEN early ELSE early \cup {port}
    /\ ext' = [ext EXCEPT ![i] = "recv"]
    /\ req_log' = [req_log EXCEPT ![i] = Append(@, "send")]
    /\ UNCHANGED << configVars, ingress_log, start_calls, rep_log, faultVars, mainPc,
                    incoming_filters, launchVars, pc, barrierVars,
                    rep, trafficVars >>

\* The participant gets the reply.
ExternalRecvReply(i) ==
    /\ ext[i] = "recv"
    /\ LET port == sync_endpoint_port(i) IN
        /\ ReplyArrived(port)
        /\ rep' = [rep EXCEPT ![port] = @ - 1]
    /\ ext' = [ext EXCEPT ![i] = "done"]
    /\ req_log' = [req_log EXCEPT ![i] = Append(@, "recv")]
    /\ UNCHANGED << configVars, ingress_log, start_calls, rep_log, faultVars, mainPc,
                    incoming_filters, launchVars, pc, barrierVars,
                    req, early, trafficVars >>

(***************************************************************************)
(* Event traffic: the plugins' publishes and the proxy.                    *)
(***************************************************************************)
\* Mutant: the pipe hands over its newest message first.
Dequeue_Newest(q) == [msg |-> q[Len(q)], rest |-> SubSeq(q, 1, Len(q) - 1)]

\* The message a pipe hands over next, and what stays in the pipe.
Dequeue(q) == [msg |-> Head(q), rest |-> Tail(q)]

\* The plugins whose sub_socket gets a message sent on "outgoing".
Subscribers(m) == {i \in connected : Accepts(sub_filters[i], m)}

\* A running start function publishes an event of type `name` on its
\* pub_socket. A PUB socket never blocks: the message enters the pipe to the
\* engine's SUB socket, or is dropped when the pipe is not ready for it.
PluginPublish(i, name) ==
    /\ pc[i] = "running"
    /\ published < MaxMsgs
    /\ LET m == EventBytes(name, i, next_seq[i]) IN
        \/ ingress' = [ingress EXCEPT ![i] = Append(@, m)]
        \/ ingress' = ingress
    /\ next_seq' = [next_seq EXCEPT ![i] = @ + 1]
    /\ published' = published + 1
    /\ UNCHANGED << configVars, historyVars, faultVars, mainPc, incoming_filters,
                    launchVars, pc, ext,
                    barrierVars, req, rep, early, egress, received >>

\* One step of zmq::proxy: take the next message of some publisher's pipe that
\* "incoming"'s filter passes and send it on "outgoing", which hands it to
\* every sub_socket with a matching filter.
ProxyForward(i) ==
    /\ mainPc = "proxy"
    /\ ingress[i] # <<>>
    /\ LET d == Dequeue(ingress[i]) IN
        /\ ingress' = [ingress EXCEPT ![i] = d.rest]
        /\ ingress_log' = Append(ingress_log, d.msg)
        /\ IF Accepts(incoming_filters, d.msg)
           THEN /\ egress' = Append(egress, d.msg)
                /\ received' = [j \in Plugins |->
                        IF j \in Subscribers(d.msg)
                        THEN Append(received[j], d.msg) ELSE received[j]]
           ELSE UNCHANGED << egress, received >>
    /\ UNCHANGED << configVars, start_calls, req_log, rep_log, faultVars, mainPc,
                    incoming_filters, launchVars, pc, ext,
                    barrierVars, req, rep, early, next_seq, published >>

(***************************************************************************)
(* Failures: an expect (or unwrap) that meets an Err panics its thread.     *)
(* A panic on the main thread ends the process and with it every plugin    *)
(* thread; a panic inside a thread::spawn closure unwinds that thread only, *)
(* nothing joins it and the process goes on.                               *)
(***************************************************************************)
\* The expect messages of start_plugin's setup, in the order of the calls.
LaunchPanics ==
    << "could not create pub socket.",
       "could not connect to pub socket",
       "could not create subscription socket.",
       "could not connect to subscriptions socket",
       "could not get bytes filter",
       "could not subscribe to event type",
       "plugin could not create sync socket.",
       "plugin could not connect to sync socket." >>

\* The places in LaunchPanics of the two expects inside the subscription loop.
SubscribeSteps == {n \in 1..Len(LaunchPanics) :
    LaunchPanics[n] \in {"could not get bytes filter", "could not subscribe to event type"}}

\* The expect messages of sync_plugins' socket creation and binds.
BindPanics ==
    { "Engine could not create synchronization socket",
      "Engine could not bind sync TCP socket.",
      "Engine could not bind sync inproc socket." }

\* The main thread panics with `msg`: the process exits, which ends every
\* thread that was spawned.
ProcessExit(msg) ==
    /\ mainPc' = "exited"
    /\ panics' = [panics EXCEPT ![MainThread] = msg]
    /\ pc' = [i \in Plugins |->
                IF pc[i] \in {"send", "recv", "running"} THEN "killed" ELSE pc[i]]

\* get_outgoing_socket: the socket or one of the binds fails.
GetOutgoingSocketFails ==
    /\ mainPc = "get_outgoing_socket"
    /\ \E msg \in { "Engine could not create outgoing socket",
                    "Engine could not bind outgoing TCP socket",
                    "Engine could not bind outgoing inproc socket" } : ProcessExit(msg)
    /\ UNCHANGED << configVars, historyVars, incoming_filters, launchVars, ext,
                    barrierVars, req, rep, early, trafficVars >>

\* get_incoming_socket: the socket, one of the binds or set_subscribe fails.
GetIncomingSocketFails ==
    /\ mainPc = "get_incoming_socket"
    /\ \E msg \in { "Engine could not create incoming socket",
                    "Engine could not bind incoming TCP socket",
                    "Engine could not bind incoming inproc socket",
                    "Engine could not subscribe to all events on incoming socket" } :
            ProcessExit(msg)
    /\ UNCHANGED << configVars, historyVars, incoming_filters, launchVars, ext,
                    barrierVars, req, rep, early, trafficVars >>

\* Mutant: start_plugins notes the failure and goes on to the next plugin.
StartPluginFails_Continue(n) ==
    /\ mainPc = "start_plugins"
    /\ launched < NumPlugins
    /\ n \in SubscribeSteps => PLUGINS[launched + 1].subscriptions # <<>>
    /\ panics' = [panics EXCEPT ![MainThread] = LaunchPanics[n]]
    /\ launched' = launched + 1
    /\ UNCHANGED << configVars, historyVars, mainPc, incoming_filters, sub_filters,
                    connected, pc, ext, barrierVars, req, rep, early, trafficVars >>

\* start_plugin for the next entry of PLUGINS fails at its n-th expect: what
\* came before it has happened (the filters of the subscriptions before the
\* failing one are installed), the thread is not spawned and the process exits.
StartPluginFails(n) ==
    /\ mainPc = "start_plugins"
    /\ launched < NumPlugins
    /\ LET i == launched + 1
           subs == PLUGINS[i].subscriptions IN
        /\ n \in SubscribeSteps => subs # <<>>
        /\ \E k \in 0..Len(subs) :
            /\ n \in SubscribeSteps => k < Len(subs)
            /\ n < Min(SubscribeSteps) => k = 0
            /\ n > Max(SubscribeSteps) => k = Len(subs)
            /\ sub_filters' = [sub_filters EXCEPT ![i] = SubscriptionFilters(SubSeq(subs, 1, k))]
    /\ ProcessExit(LaunchPanics[n])
    /\ UNCHANGED << configVars, historyVars, incoming_filters, launched, connected,
                    ext, barrierVars, req, rep, early, trafficVars >>

\* sync_plugins: creating or binding the REP socket of this turn fails.
SyncBindFails ==
    /\ mainPc = "sync_loop"
    /\ AwaitingMore(ready_subscribers)
    /\ \E msg \in BindPanics : ProcessExit(msg)
    /\ UNCHANGED << configVars, historyVars, incoming_filters, launchVars, ext,
                    barrierVars, req, rep, early, trafficVars >>

\* sync_plugins: recv_msg returns an error.
SyncRecvFails ==
    /\ mainPc = "sync_recv"
    /\ ProcessExit("Engine got error receiving sync message")
    /\ UNCHANGED << configVars, historyVars, incoming_filters, launchVars, ext,
                    barrierVars, req, rep, early, trafficVars >>

\* sync_plugins: the socket is popped and the send of the reply fails.
SyncReplyFails ==
    /\ mainPc = "reply_loop"
    /\ RepliesLeft(msg_sent)
    /\ Len(sync_sockets) > 0
    /\ sync_sockets' = Pop(sync_sockets).rest
    /\ ProcessExit("Engine got error trying to send sync reply.")
    /\ UNCHANGED << configVars, historyVars, incoming_filters, launchVars, ext, bound,
                    ready_subscribers, msg_sent, ready_recv, ack_sent, req, rep, early,
                    trafficVars >>

\* zmq::proxy returns an error.
ProxyFails ==
    /\ mainPc = "proxy"
    /\ ProcessExit("Engine got error running proxy; socket was closed?")
    /\ UNCHANGED << configVars, historyVars, incoming_filters, launchVars, ext,
                    barrierVars, req, rep, early, trafficVars >>

\* A plugin thread panics with `msg`: the thread ends, the process goes on.
ThreadPanic(i, msg) ==
    /\ pc' = [pc EXCEPT ![i] = "panicked"]
    /\ panics' = [panics EXCEPT ![i] = msg]
    /\ UNCHANGED << configVars, historyVars, mainPc, incoming_filters, launchVars, ext,
                    barrierVars, req, rep, early, trafficVars >>

\* The thread's sync.send fails.
PluginSendFails(i) ==
    /\ pc[i] = "send"
    /\ ThreadPanic(i, "plugin could not send sync message")

\* The thread's sync.recv_msg fails.
PluginRecvFails(i) ==
    /\ pc[i] = "recv"
    /\ ThreadPanic(i, "plugin got error trying to receive sync reply")

\* The plugin's start function returns an error.
PluginStartFails(i) ==
    /\ pc[i] = "running"
    /\ ThreadPanic(i, "got error executing plugin start function")

Next ==
    \/ GetOutgoingSocket
    \/ GetIncomingSocket
    \/ StartPlugin
    \/ StartPluginsDone
    \/ SyncBind
    \/ SyncRecv
    \/ SyncRecvDone
    \/ SyncReply
    \/ SyncReplyDone
    \/ \E i \in Plugins : PluginSendReady(i)
    \/ \E i \in Plugins : PluginRecvReply(i)
    \/ \E i \in Externals : ExternalSendReady(i)
    \/ \E i \in Externals : ExternalRecvReply(i)
    \/ \E i \in Plugins, name \in Topics : PluginPublish(i, name)
    \/ \E i \in Plugins : ProxyForward(i)

\* The startup path alone: launch and barrier, up to the proxy's start.
NextStartup ==
    \/ GetOutgoingSocket
    \/ GetIncomingSocket
    \/ StartPlugin
    \/ StartPluginsDone
    \/ SyncBind
    \/ SyncRecv
    \/ SyncRecvDone
    \/ SyncReply
    \/ SyncReplyDone
    \/ \E i \in Plugins : PluginSendReady(i)
    \/ \E i \in Plugins : PluginRecvReply(i)
    \/ \E i \in Externals : ExternalSendReady(i)
    \/ \E i \in Externals : ExternalRecvReply(i)

\* The main thread's steps before the proxy.
MainStartup ==
    \/ GetOutgoingSocket
    \/ GetIncomingSocket
    \/ StartPlugin
    \/ StartPluginsDone
    \/ SyncBind
    \/ SyncRecv
    \/ SyncRecvDone
    \/ SyncReply
    \/ SyncReplyDone

\* Scheduling: a thread that can run does run, and a blocking recv returns
\* once its message is there. Nothing makes an external participant send, and
\* nothing makes a start function publish.
Fairness ==
    /\ WF_vars(MainStartup)
    /\ \A i \in Plugins : WF_vars(PluginSendReady(i)) /\ WF_vars(PluginRecvReply(i))
    /\ \A i \in Externals : WF_vars(ExternalRecvReply(i))

\* The steps of the engine and its threads when calls may fail.
NextWithFailures ==
    \/ Next
    \/ GetOutgoingSocketFails
    \/ GetIncomingSocketFails
    \/ \E n \in 1..Len(LaunchPanics) : StartPluginFails(n)
    \/ SyncBindFails
    \/ SyncRecvFails
    \/ SyncReplyFails
    \/ ProxyFails
    \/ \E i \in Plugins : PluginSendFails(i)
    \/ \E i \in Plugins : PluginRecvFails(i)
    \/ \E i \in Plugins : PluginStartFails(i)

\* The engine as shipped.
Spec == Init /\ [][Next]_vars

\* The engine as shipped, with transport calls and start functions that may fail.
FaultSpec == Init /\ [][NextWithFailures]_vars

\* The engine as shipped, scheduled fairly.
FairSpec == Init /\ [][Next]_vars /\ Fairness

\* The startup of the engine under other assignments of distinct ids,
\* scheduled fairly.
SpecIds == InitIds /\ [][NextStartup]_vars /\ Fairness

(***************************************************************************)
(* Vocabulary of the properties.                                           *)
(***************************************************************************)
\* N = |in-process plugins| + |external participants|.
N == NumPlugins + NumExternal

\* The rendezvous address of id k: base_port + k.
PortOfId(k) == 5000 + k

\* The barrier session of id k.
Session(k) ==
    LET p == PortOfId(k) IN
    IF ack_sent[p] > 0 THEN "AckSent"
    ELSE IF ready_recv[p] > 0 THEN "ReceivedReady"
    ELSE IF p \in bound THEN "AwaitingConnection"
    ELSE "None"

\* The relay loop runs, or has forwarded something.
RelayStarted == mainPc = "proxy" \/ egress # <<>>

\* Some start function has been invoked.
SomeEntryPointInvoked == \E i \in Plugins : pc[i] = "running"

\* Every participant has sent its ready request.
AllReadySent ==
    /\ \A i \in Plugins : pc[i] \in {"recv", "running"}
    /\ \A i \in Externals : ext[i] \in {"recv", "done"}

\* The barrier is through, every participant has its reply, every start
\* function has been invoked and the relay loop runs.
StartupComplete ==
    /\ mainPc = "proxy"
    /\ \A i \in Plugins : pc[i] = "running"
    /\ \A i \in Externals : ext[i] = "done"

\* The filters plugin i declares.
DeclaredFilters(i) ==
    {get_event_type_bytes_filter(PLUGINS[i].subscriptions[k]) :
        k \in 1..Len(PLUGINS[i].subscriptions)}

\* Publisher and sequence number of a message (the two bytes of its body).
SrcOf(m) == m[Len(m) - 1]
SeqOf(m) == m[Len(m)]

(***************************************************************************)
(* Properties.                                                             *)
(***************************************************************************)
\* C1: whenever the relay loop is running, or any message has been forwarded
\* from ingress to egress, all N barrier sessions are in state AckSent.
C1_RelayOnlyAfterAllAcks ==
    RelayStarted => \A k \in 0..(N - 1) : Session(k) = "AckSent"

\* The relay loop runs and has forwarded a message.
C1_Witness == mainPc = "proxy" /\ egress # <<>>

\* C2: the barrier sends no acknowledgment until a ready request has been
\* received for every id in [0, N); so whenever a start function has been
\* invoked, all N ready requests have been received.
C2_NoAckBeforeAllReady ==
    ((\E p \in Ports : ack_sent[p] > 0) \/ SomeEntryPointInvoked)
        => \A k \in 0..(N - 1) : ready_recv[PortOfId(k)] >= 1

\* A start function runs while the barrier is still sending replies.
C2_Witness == SomeEntryPointInvoked /\ mainPc = "reply_loop" /\ msg_sent < N

\* C3: for every id in [0, N) at most one ready request is received and no
\* more acknowledgments are sent than requests were received; once the barrier
\* is through, exactly one request has been received and exactly one
\* acknowledgment sent for each id, and none on any other address.
C3_OneReadyOneAckPerId ==
    /\ \A k \in 0..(N - 1) :
        /\ ack_sent[PortOfId(k)] <= ready_recv[PortOfId(k)]
        /\ ready_recv[PortOfId(k)] <= 1
        /\ mainPc = "proxy" => ready_recv[PortOfId(k)] = 1 /\ ack_sent[PortOfId(k)] = 1
    /\ \A p \in Ports \ {PortOfId(k) : k \in 0..(N - 1)} :
        ready_recv[p] = 0 /\ ack_sent[p] = 0

\* The barrier is through and every participant has taken its reply.
C3_Witness == StartupComplete /\ \A p \in Ports : rep[p] = 0

\* C4: as long as an external participant has not sent its ready request, no
\* acknowledgment has been sent, no start function has been invoked, the relay
\* loop has not started and no subscriber has received anything.
C4_BlockedWithoutExternal ==
    (\E e \in Externals : ext[e] = "idle") =>
        /\ \A p \in Ports : ack_sent[p] = 0 /\ rep[p] = 0
        /\ ~SomeEntryPointInvoked
        /\ mainPc \notin {"reply_loop", "proxy"}
        /\ egress = <<>>
        /\ \A i \in Plugins : received[i] = <<>>

\* The barrier has every in-process plugin's request and waits on the external
\* participant's address, which has sent nothing.
C4_Witness ==
    /\ \A e \in Externals : ext[e] = "idle"
    /\ mainPc = "sync_recv"
    /\ ready_subscribers = NumPlugins
    /\ \A i \in Plugins : pc[i] = "recv"

\* C5: under fair scheduling, once every participant has sent its ready
\* request the startup completes: every participant gets its reply, every start
\* function is invoked and the relay loop starts.
C5_BarrierCompletes == AllReadySent ~> StartupComplete

\* The startup is complete and every participant sent its request before its
\* address was bound.
C5_Witness == StartupComplete /\ early = {PortOfId(k) : k \in 0..(N - 1)}

\* C6 as claimed: ids need only be distinct, and the barrier opens and awaits
\* exactly the participants' addresses base_port + id.
C6_Original_AwaitsParticipantAddresses ==
    bound \subseteq {BasePort + plugin_id[i] : i \in Participants}

\* C6, amended: each participant sends to base_port + id, but the barrier
\* opens and awaits base_port + k for k = 0, 1, ... in turn, whatever the ids
\* are. It gets past its k-th address only if some participant has id k, so it
\* is through only if the ids are exactly 0..N-1; and if they are, then under
\* fair scheduling the startup completes once every participant has sent.
C6_BarrierAwaitsDensePorts ==
    /\ [](/\ bound = {PortOfId(k) : k \in 0..(Cardinality(bound) - 1)}
          /\ Cardinality(bound) <= N
          /\ \A p \in Ports : req[p] + ready_recv[p] > 0
                => \E i \in Participants : p = PortOfId(plugin_id[i])
          /\ \A k \in 0..(N - 1) : ready_recv[PortOfId(k)] > 0
                => \E i \in Participants : plugin_id[i] = k
          /\ mainPc \in {"reply_loop", "proxy"}
                => {plugin_id[i] : i \in Participants} = 0..(N - 1))
    /\ (({plugin_id[i] : i \in Participants} = 0..(N - 1)) /\ AllReadySent
            ~> StartupComplete)

\* Distinct ids with a gap: every participant has sent its ready request, and
\* the barrier waits on an address that is no participant's.
C6_Witness ==
    /\ {plugin_id[i] : i \in Participants} # 0..(N - 1)
    /\ AllReadySent
    /\ mainPc = "sync_recv"
    /\ \A i \in Participants : PortOfId(plugin_id[i]) # PortOfId(ready_subscribers)

\* Event traffic has begun: the proxy has forwarded a message or a start
\* function has published one.
TrafficStarted == egress # <<>> \/ published > 0

\* Every in-process plugin's sub_socket is connected with every declared
\* filter installed.
AllListening ==
    \A i \in Plugins : i \in connected /\ sub_filters[i] = DeclaredFilters(i)

\* C7 as claimed: once traffic has begun every plugin is listening and every
\* participant has completed its handshake (has its reply).
C7_Original_AllHandshakesComplete ==
    TrafficStarted =>
        /\ AllListening
        /\ \A i \in Plugins : pc[i] = "running"
        /\ \A e \in Externals : ext[e] = "done"

\* C7, amended: once traffic has begun every in-process plugin is listening
\* and the barrier has received every participant's ready request (the replies
\* need not all have been sent or taken yet).
C7_ListeningBeforeTraffic ==
    TrafficStarted =>
        /\ AllListening
        /\ AllReadySent
        /\ \A k \in 0..(N - 1) : ready_recv[PortOfId(k)] >= 1

\* A plugin has published while another participant still waits for its reply
\* and the relay loop has not started.
C7_Witness ==
    /\ published > 0
    /\ mainPc = "reply_loop"
    /\ \E i \in Plugins : pc[i] = "recv"

\* The messages of a sequence that one of the filters matches, in order.
Matching(filters, msgs) == SelectSeq(msgs, LAMBDA m : \E f \in filters : IsPrefix(f, m))

\* The elements of a sequence.
Range(q) == {q[k] : k \in 1..Len(q)}

\* C8: each plugin has received exactly the relayed messages that one of its
\* declared filters matches, in relay order; in the shipped configuration a
\* relayed "NewImageEvent" message of plugin 0 is with plugin 1 and never with
\* plugin 2.
C8_DeliveryMatchesFilters ==
    /\ \A i \in Plugins : received[i] = Matching(DeclaredFilters(i), egress)
    /\ \A s \in 1..(MaxMsgs + 1) :
        LET m == EventBytes("NewImageEvent", 1, s) IN
        /\ m \in Range(egress) => m \in Range(received[2])
        /\ m \notin Range(received[3])

\* Plugin 0's "NewImageEvent" message has been relayed, and an
\* "ImageScoredEvent" message too.
C8_Witness ==
    /\ EventBytes("NewImageEvent", 1, 1) \in Range(egress)
    /\ \E i \in Plugins, s \in 1..MaxMsgs : EventBytes("ImageScoredEvent", i, s) \in Range(egress)

\* C9: a plugin that declares no subscription never receives a message.
C9_NoSubscriptionNoMessages ==
    \A i \in Plugins : PLUGINS[i].subscriptions = <<>> => received[i] = <<>>

\* Messages of both event types have been relayed.
C9_Witness ==
    /\ Len(egress) >= 2
    /\ \E k \in 1..Len(egress) : IsPrefix(get_event_type_bytes_filter("NewImageEvent"), egress[k])
    /\ \E k \in 1..Len(egress) : IsPrefix(get_event_type_bytes_filter("ImageScoredEvent"), egress[k])

\* C10: in what a subscriber has received, the messages of any one publisher
\* appear in the order that publisher published them.
C10_PerPublisherOrder ==
    \A j \in Plugins : \A a, b \in 1..Len(received[j]) :
        (a < b /\ SrcOf(received[j][a]) = SrcOf(received[j][b]))
            => SeqOf(received[j][a]) < SeqOf(received[j][b])

\* A subscriber has received two messages of one publisher.
C10_Witness ==
    \E j \in Plugins : \E a, b \in 1..Len(received[j]) :
        a < b /\ SrcOf(received[j][a]) = SrcOf(received[j][b])

\* The process has exited.
ProcessExited == mainPc = "exited"

\* The threads of the process that are alive.
LiveThread(i) == pc[i] \in {"send", "recv", "running"}

\* C11 as claimed: once a plugin's start function has returned an error the
\* process has terminated: the relay loop is not running and no other plugin
\* thread is alive.
C11_Claimed_EntryPointErrorEndsProcess ==
    \A i \in Plugins :
        panics[i] = "got error executing plugin start function" =>
            /\ mainPc # "proxy"
            /\ \A j \in Plugins \ {i} : ~LiveThread(j)

\* The expect messages of the handshake: the ready request and the reply on
\* the plugin side, the bind, the receive and the reply on the barrier side.
HandshakePanics ==
    BindPanics \cup
    { "plugin could not send sync message",
      "plugin got error trying to receive sync reply",
      "Engine got error receiving sync message",
      "Engine got error trying to send sync reply." }

\* C12 as claimed: once any handshake call has failed, on a plugin thread or
\* on the barrier side, the process has terminated: the barrier is not
\* waiting, the relay has not started afterwards and no plugin is alive.
C12_Claimed_HandshakeFailureEndsProcess ==
    (\E t \in Threads : panics[t] \in HandshakePanics) =>
        /\ ProcessExited
        /\ \A j \in Plugins : ~LiveThread(j)

\* C13: the barrier binds base_port + k only after it has received a request
\* on each of base_port + 0 .. base_port + (k-1), and the requests are received
\* in the order 0, 1, ..., N-1 whatever the order they were sent in.
C13_AscendingReceiveOrder ==
    /\ \A k \in 0..(N - 1) : PortOfId(k) \in bound =>
            \A j \in 0..(k - 1) : ready_recv[PortOfId(j)] >= 1
    /\ \A k \in 0..(N - 1) : ready_recv[PortOfId(k)] >= 1 =>
            /\ PortOfId(k) \in bound
            /\ \A j \in 0..(k - 1) : ready_recv[PortOfId(j)] >= 1
    /\ mainPc \in {"sync_loop", "sync_recv"} =>
            sync_sockets = [k \in 1..ready_subscribers |-> PortOfId(k - 1)]
    /\ mainPc = "reply_loop" /\ msg_sent = 0 =>
            sync_sockets = [k \in 1..N |-> PortOfId(k - 1)]

\* The barrier has id 0's request and waits for id 1, which has not sent yet,
\* while the requests of ids 2 and 3 are already queued.
C13_Witness ==
    /\ mainPc = "sync_recv"
    /\ ready_subscribers = 1
    /\ pc[2] = "send"
    /\ req[PortOfId(2)] > 0
    /\ req[PortOfId(3)] > 0

\* C14: a plugin thread sends one ready request, then waits for the reply, and
\* its start function is called at most once, only after the reply has been
\* sent by the barrier and received by the thread.
C14_OneReadyThenStartOnce ==
    \A i \in Plugins :
        /\ start_calls[i] <= 1
        /\ start_calls[i] = 1 <=> pc[i] = "running"
        /\ pc[i] \in {"not_spawned", "send"} => req_log[i] = <<>>
        /\ pc[i] = "recv" => req_log[i] = <<"send">>
        /\ pc[i] = "running" =>
            /\ req_log[i] = <<"send", "recv">>
            /\ ack_sent[PortOfId(PLUGINS[i].plugin_id)] >= 1

\* One plugin's start function runs while another plugin, whose reply has not
\* been sent, still waits.
C14_Witness ==
    \E i, j \in Plugins :
        /\ pc[i] = "running"
        /\ pc[j] = "recv"
        /\ ack_sent[PortOfId(PLUGINS[j].plugin_id)] = 0
        /\ start_calls[j] = 0

\* start_plugin has failed for some plugin.
LaunchFailed == \E n \in 1..Len(LaunchPanics) : panics[MainThread] = LaunchPanics[n]

\* C15: a plugin's thread exists only if its pub, sub and sync sockets are
\* connected and every declared filter is installed. If start_plugin fails for
\* a plugin, the process has exited: that plugin's thread and the later ones
\* were never spawned, no start function was ever called, the barrier never
\* bound an address and nothing was ever relayed.
C15_NoPartialPluginSet ==
    /\ \A i \in Plugins : pc[i] # "not_spawned" =>
            i \in connected /\ sub_filters[i] = DeclaredFilters(i)
    /\ LaunchFailed =>
        /\ ProcessExited
        /\ launched < NumPlugins
        /\ \A i \in Plugins : i > launched => pc[i] = "not_spawned" /\ i \notin connected
        /\ \A i \in Plugins : ~LiveThread(i) /\ start_calls[i] = 0
        /\ bound = {} /\ ready_subscribers = 0
        /\ \A p \in Ports : ready_recv[p] = 0 /\ ack_sent[p] = 0
        /\ egress = <<>> /\ ingress_log = <<>>

\* Plugin 1's launch failed at the sync socket, after its filter was
\* installed; plugin 0's thread had been spawned and had sent its request.
C15_Witness ==
    /\ panics[MainThread] = "plugin could not connect to sync socket."
    /\ launched = 1
    /\ sub_filters[2] = DeclaredFilters(2)
    /\ pc[1] = "killed"
    /\ req[PortOfId(0)] > 0
    /\ pc[2] = "not_spawned"

\* The moves a barrier session may make in one step.
SessionMoves ==
    { <<"None", "AwaitingConnection">>,
      <<"AwaitingConnection", "ReceivedReady">>,
      <<"ReceivedReady", "AckSent">> }

\* C16: a barrier session stays where it is or moves one step along
\* AwaitingConnection -> ReceivedReady -> AckSent (never backwards, never from
\* AwaitingConnection straight to AckSent, never out of AckSent), and every
\* session is in AckSent whenever the relay has started.
C16_SessionLifecycle ==
    /\ [][\A k \in 0..(N - 1) :
            \/ Session(k)' = Session(k)
            \/ <<Session(k), Session(k)'>> \in SessionMoves]_vars
    /\ [](RelayStarted => \A k \in 0..(N - 1) : Session(k) = "AckSent")

\* The reply loop is under way: the last session is in AckSent, the first
\* still in ReceivedReady.
C16_Witness == Session(N - 1) = "AckSent" /\ Session(0) = "ReceivedReady"

\* C17: what the proxy has sent on egress is what it has taken from ingress,
\* message for message and in the same order: a prefix of it with nothing
\* left over, since a step of the proxy takes and sends one message.
C17_RelayVerbatim ==
    /\ IsPrefix(egress, ingress_log)
    /\ Len(egress) = Len(ingress_log)
    /\ \A m \in Range(ingress_log) : Accepts(incoming_filters, m)

\* Two messages of different publishers and different event types have been
\* relayed.
C17_Witness ==
    /\ Len(egress) = 2
    /\ SrcOf(egress[1]) # SrcOf(egress[2])
    /\ egress[1][1] # egress[2][1]

\* C18: a REP socket of the barrier sees nothing, a receive, or a receive then
\* a send; a REQ socket of a participant sees nothing, a send, or a send then a
\* receive.
C18_StrictAlternation ==
    /\ \A p \in Ports : rep_log[p] \in {<<>>, <<"recv">>, <<"recv", "send">>}
    /\ \A i \in Participants : req_log[i] \in {<<>>, <<"send">>, <<"send", "recv">>}

\* Every exchange is complete, on both sides.
C18_Witness ==
    /\ \A k \in 0..(N - 1) : rep_log[PortOfId(k)] = <<"recv", "send">>
    /\ \A i \in Participants : req_log[i] = <<"send", "recv">>

\* C19: the acknowledgments go out in descending id order: after msg_sent
\* replies exactly the ids N - msg_sent .. N-1 have been acknowledged, so when
\* id i has been acknowledged every id j > i has been too.
C19_DescendingAckOrder ==
    /\ \A k \in 0..(N - 1) : ack_sent[PortOfId(k)] >= 1 <=> k >= N - msg_sent
    /\ \A i, j \in 0..(N - 1) :
        (i < j /\ ack_sent[PortOfId(i)] >= 1) => ack_sent[PortOfId(j)] >= 1

\* Two replies are out: ids 3 and 2 are acknowledged, ids 1 and 0 are not.
C19_Witness ==
    /\ msg_sent = 2
    /\ ack_sent[PortOfId(N - 1)] = 1
    /\ ack_sent[PortOfId(N - 2)] = 1
    /\ ack_sent[PortOfId(0)] = 0

\* C20: sync_sockets holds ready_subscribers - msg_sent sockets: N when the
\* reply loop begins, none when it has ended, and at least one whenever the
\* reply loop is about to pop.
C20_PopNeverFails ==
    /\ Len(sync_sockets) = ready_subscribers - msg_sent
    /\ mainPc = "reply_loop" /\ msg_sent = 0 => Len(sync_sockets) = N
    /\ mainPc = "proxy" => Len(sync_sockets) = 0
    /\ mainPc = "reply_loop" /\ msg_sent < N => Len(sync_sockets) > 0

\* The reply loop is half way through.
C20_Witness == mainPc = "reply_loop" /\ msg_sent = 2 /\ Len(sync_sockets) = 2
====
